---- MODULE Spec2Model ----
(***************************************************************************)
(* Multimode clock source (Raspberry Pi Pico firmware).                    *)
(*                                                                         *)
(* The model follows the polling loop of main.c and the handlers it calls. *)
(* The handlers are taken from the module files (button_handler.c,         *)
(* clock_generator.c, reset_control.c, power_control.c, uart_control.c);   *)
(* set_mode and the loop itself exist only in main.c and are taken from    *)
(* there.  The module files keep their state behind getters; the model     *)
(* holds one copy of each field under the name the C files give it.        *)
(*                                                                         *)
(* Each C function is an operator from a record of the program state (and  *)
(* the inputs the function reads) to the record after the call; an action  *)
(* is one step of the loop and commits the record it computes.             *)
(*                                                                         *)
(* Time is to_ms_since_boot in ms.  It advances in sleep_ms and, by less   *)
(* than a polling period, while the handlers run; the model stops before   *)
(* the 32-bit millisecond counter could wrap.                              *)
(***************************************************************************)
EXTENDS Integers, Sequences, FiniteSets, TLC

(***************************************************************************)
(* Program constants                                                       *)
(***************************************************************************)
DEBOUNCE_DELAY_MS == 50
UPDATE_INTERVAL_MS == 10
MIN_LOW_FREQ == 1
MAX_LOW_FREQ_RANGE1 == 100
MAX_LOW_FREQ_RANGE2 == 100000
HIGH_FREQ_OUTPUT == 1000000
PWM_CLOCK_DIVIDER == 125
PWM_WRAP_VALUE == 1
PWM_DUTY_CYCLE == 1
UART_MENU_TIMEOUT_MS == 30000
UART_CMD_BUFFER_SIZE == 32
MIN_UART_FREQ == 1
MAX_UART_FREQ == 1000000
RESET_CYCLES == 6
RESET_HIGH_LED_MS == 250
RESET_FALLBACK_MS == 60
RESET_MIN_VISIBLE_MS == 10
HOLD_FOR_UART_MS == 3000
RELEASE_DEBOUNCE_SLEEP_MS == 50
SYS_CLOCK_HZ == 125000000
UART_PWM_SEED_WRAP == 1000
PWM_MAX_DIVIDER == 255
PWM_MAX_WRAP == 65535
LONG_MAX == 2147483647
INT_MAX == 2147483647
ADC_MAX == 4095

MODE_SINGLE_STEP == "MODE_SINGLE_STEP"
MODE_LOW_FREQ == "MODE_LOW_FREQ"
MODE_HIGH_FREQ == "MODE_HIGH_FREQ"
MODE_UART_CONTROL == "MODE_UART_CONTROL"
clock_mode_t == {MODE_SINGLE_STEP, MODE_LOW_FREQ, MODE_HIGH_FREQ, MODE_UART_CONTROL}

\* Input pins (GPIO numbers).  config.h gives the three mode buttons; the
\* sources use BUTTON_RESET and BUTTON_POWER without defining them, and any
\* two other pins do.
BUTTON_SINGLE_STEP == 2
BUTTON_LOW_FREQ == 3
BUTTON_HIGH_FREQ == 4
BUTTON_RESET == 11
BUTTON_POWER == 12
ModeButtons == {BUTTON_SINGLE_STEP, BUTTON_LOW_FREQ, BUTTON_HIGH_FREQ}
Buttons == ModeButtons \cup {BUTTON_RESET, BUTTON_POWER}

VARIABLES
    \* button_handler.c / main.c
    current_mode, previous_mode, last_button_time,
    \* clock_generator.c
    clock_state, current_frequency, single_step_active, timer_active,
    \* PWM slice of the clock pin (hardware registers)
    pwm_enabled, pwm_clkdiv, pwm_wrap, pwm_level,
    \* uart_control.c
    uart_clock_running, uart_set_frequency, uart_cmd_buffer,
    uart_menu_timeout, uart_pwm_active,
    \* reset_control.c
    reset_active, reset_output_state, reset_cycle_count, reset_start_time,
    reset_high_led_timer, reset_waiting_for_edge, last_clock_state_for_reset,
    last_reset_button_time, led_reset_high,
    \* power_control.c
    power_state, last_power_button_time,
    \* main(): locals and position in the loop
    button_hold_start, button_held, pc,
    \* observation of the last call of set_mode
    sm_quiet,
    \* observation of the last line end: its output ended with the prompt
    cmd_prompted,
    \* observation of the debounce checks: the inputs whose present assertion
    \* (since the pin last changed) has had a true return
    reported,
    \* observation of the last step of the program: it called print_status
    status_printed,
    \* environment: clock, pins (TRUE = pressed), potentiometer, receive FIFO,
    \* and the schedule of the polls (fixed during a run)
    now, pins, adc_value, rx, sched

progVars == <<current_mode, previous_mode, last_button_time, clock_state,
              current_frequency, single_step_active, timer_active, pwm_enabled,
              pwm_clkdiv, pwm_wrap, pwm_level, uart_clock_running,
              uart_set_frequency, uart_cmd_buffer, uart_menu_timeout,
              uart_pwm_active, reset_active, reset_output_state,
              reset_cycle_count, reset_start_time, reset_high_led_timer,
              reset_waiting_for_edge, last_clock_state_for_reset,
              last_reset_button_time, led_reset_high, power_state,
              last_power_button_time, sm_quiet, cmd_prompted, reported,
              status_printed>>
loopVars == <<button_hold_start, button_held, pc>>
envVars == <<now, pins, adc_value, rx, sched>>
vars == <<progVars, loopVars, envVars>>

\* The program state as one record, the argument of the function operators.
S ==
    [current_mode |-> current_mode, previous_mode |-> previous_mode,
     last_button_time |-> last_button_time, clock_state |-> clock_state,
     current_frequency |-> current_frequency,
     single_step_active |-> single_step_active, timer_active |-> timer_active,
     pwm_enabled |-> pwm_enabled, pwm_clkdiv |-> pwm_clkdiv,
     pwm_wrap |-> pwm_wrap, pwm_level |-> pwm_level,
     uart_clock_running |-> uart_clock_running,
     uart_set_frequency |-> uart_set_frequency,
     uart_cmd_buffer |-> uart_cmd_buffer,
     uart_menu_timeout |-> uart_menu_timeout,
     uart_pwm_active |-> uart_pwm_active, reset_active |-> reset_active,
     reset_output_state |-> reset_output_state,
     reset_cycle_count |-> reset_cycle_count,
     reset_start_time |-> reset_start_time,
     reset_high_led_timer |-> reset_high_led_timer,
     reset_waiting_for_edge |-> reset_waiting_for_edge,
     last_clock_state_for_reset |-> last_clock_state_for_reset,
     last_reset_button_time |-> last_reset_button_time,
     led_reset_high |-> led_reset_high, power_state |-> power_state,
     last_power_button_time |-> last_power_button_time,
     sm_quiet |-> sm_quiet, cmd_prompted |-> cmd_prompted,
     reported |-> reported,
     \* no report yet in the step that starts from this state
     status_printed |-> FALSE]

\* The pin read with each debounce index by handle_buttons.
ButtonPin(i) ==
    CASE i = 0 -> BUTTON_SINGLE_STEP
      [] i = 1 -> BUTTON_LOW_FREQ
      [] i = 2 -> BUTTON_HIGH_FREQ

\* The inputs whose debounce check returned true on the way to s: a true
\* return, and nothing else, writes the time stamp of the input.
Stamped(s) ==
    {ButtonPin(i) : i \in {j \in 0..2 : s.last_button_time[j] # last_button_time[j]}}
    \cup (IF s.last_reset_button_time # last_reset_button_time
          THEN {BUTTON_RESET} ELSE {})
    \cup (IF s.last_power_button_time # last_power_button_time
          THEN {BUTTON_POWER} ELSE {})

Commit(s) ==
    /\ current_mode' = s.current_mode
    /\ previous_mode' = s.previous_mode
    /\ last_button_time' = s.last_button_time
    /\ clock_state' = s.clock_state
    /\ current_frequency' = s.current_frequency
    /\ single_step_active' = s.single_step_active
    /\ timer_active' = s.timer_active
    /\ pwm_enabled' = s.pwm_enabled
    /\ pwm_clkdiv' = s.pwm_clkdiv
    /\ pwm_wrap' = s.pwm_wrap
    /\ pwm_level' = s.pwm_level
    /\ uart_clock_running' = s.uart_clock_running
    /\ uart_set_frequency' = s.uart_set_frequency
    /\ uart_cmd_buffer' = s.uart_cmd_buffer
    /\ uart_menu_timeout' = s.uart_menu_timeout
    /\ uart_pwm_active' = s.uart_pwm_active
    /\ reset_active' = s.reset_active
    /\ reset_output_state' = s.reset_output_state
    /\ reset_cycle_count' = s.reset_cycle_count
    /\ reset_start_time' = s.reset_start_time
    /\ reset_high_led_timer' = s.reset_high_led_timer
    /\ reset_waiting_for_edge' = s.reset_waiting_for_edge
    /\ last_clock_state_for_reset' = s.last_clock_state_for_reset
    /\ last_reset_button_time' = s.last_reset_button_time
    /\ led_reset_high' = s.led_reset_high
    /\ power_state' = s.power_state
    /\ last_power_button_time' = s.last_power_button_time
    /\ sm_quiet' = s.sm_quiet
    /\ cmd_prompted' = s.cmd_prompted
    /\ reported' = s.reported \cup Stamped(s)
    /\ status_printed' = s.status_printed

(***************************************************************************)
(* clock_generator.c                                                       *)
(***************************************************************************)
\* toggle_clock_output that drives the clock high instead of inverting it.
toggle_clock_output_drives_high(s) == [s EXCEPT !.clock_state = TRUE]

toggle_clock_output(s) == [s EXCEPT !.clock_state = ~s.clock_state]

set_clock_output(s, state) == [s EXCEPT !.clock_state = state]

\* The mapping without the MIN_LOW_FREQ offset of the first range.
calculate_frequency_from_pot_without_offset(adc) ==
    IF adc <= 819
    THEN (adc * (MAX_LOW_FREQ_RANGE1 - MIN_LOW_FREQ)) \div 819
    ELSE MAX_LOW_FREQ_RANGE1
         + (((adc - 819) * (MAX_LOW_FREQ_RANGE2 - MAX_LOW_FREQ_RANGE1)) \div 3276)

\* The mapping whose second range scales the raw sample instead of
\* scaled_adc = adc_value - 819.
calculate_frequency_from_pot_unscaled(adc) ==
    IF adc <= 819
    THEN MIN_LOW_FREQ + ((adc * (MAX_LOW_FREQ_RANGE1 - MIN_LOW_FREQ)) \div 819)
    ELSE MAX_LOW_FREQ_RANGE1
         + ((adc * (MAX_LOW_FREQ_RANGE2 - MAX_LOW_FREQ_RANGE1)) \div 3276)

\* Integer arithmetic as in C: the uint16_t sample is promoted to int, the
\* products stay below 2^31 (3276 * 99900 = 327272400).
calculate_frequency_from_pot(adc) ==
    IF adc <= 819
    THEN MIN_LOW_FREQ + ((adc * (MAX_LOW_FREQ_RANGE1 - MIN_LOW_FREQ)) \div 819)
    ELSE MAX_LOW_FREQ_RANGE1
         + (((adc - 819) * (MAX_LOW_FREQ_RANGE2 - MAX_LOW_FREQ_RANGE1)) \div 3276)

\* The repeating timer is (re)started only when the frequency changed.
update_low_frequency(s, adc) ==
    LET new_frequency == calculate_frequency_from_pot(adc) IN
    IF new_frequency # s.current_frequency
    THEN [s EXCEPT !.current_frequency = new_frequency,
                   !.timer_active = (new_frequency > 0)]
    ELSE s

start_high_frequency(s) ==
    [s EXCEPT !.pwm_clkdiv = [num |-> PWM_CLOCK_DIVIDER, den |-> 1],
              !.pwm_wrap = PWM_WRAP_VALUE,
              !.pwm_enabled = TRUE,
              !.pwm_level = PWM_DUTY_CYCLE]

stop_high_frequency(s) ==
    set_clock_output([s EXCEPT !.pwm_enabled = FALSE], FALSE)

(***************************************************************************)
(* uart_control.c: remote-control PWM                                      *)
(***************************************************************************)
stop_uart_pwm(s) ==
    IF s.uart_pwm_active
    THEN [s EXCEPT !.pwm_enabled = FALSE, !.uart_pwm_active = FALSE]
    ELSE s

\* stop_uart_frequency that leaves the remote PWM as it is.
stop_uart_frequency_keeps_pwm(s) == s

\* uart_timer_active is never set by any code path, so only the PWM is left.
stop_uart_frequency(s) == stop_uart_pwm(s)

\* The outcomes considered for an out-of-range float to uint16_t conversion
\* (undefined in C): the low 16 bits, saturation, zero.
UbOutcomes == {"truncate", "saturate", "zero"}

\* (uint16_t)x of a float x with integer part q: q when it fits, else the
\* outcome ub of the undefined conversion.
U16OfFloat(q, ub) ==
    IF q <= PWM_MAX_WRAP THEN q
    ELSE CASE ub = "truncate" -> q % 65536
           [] ub = "saturate" -> PWM_MAX_WRAP
           [] ub = "zero" -> 0

\* uint16_t w = <int expression>: reduced modulo 2^16.
U16(x) == x % 65536

\* wrap as left by the solver of start_uart_pwm.  The float comparisons are
\* taken exactly: divider > 255 iff R > 255 * f * (wrap + 1), that is iff
\* f <= (R - 1) \div (255 * (wrap + 1)), which stays within 32 bits.
uart_pwm_wrap(frequency, ub) ==
    LET w0 == UART_PWM_SEED_WRAP
        high == frequency <= (SYS_CLOCK_HZ - 1) \div (PWM_MAX_DIVIDER * (w0 + 1))
        w1a == U16(U16OfFloat(SYS_CLOCK_HZ \div (frequency * PWM_MAX_DIVIDER), ub) - 1)
        w1 == IF high THEN (IF w1a < 1 THEN 1 ELSE w1a) ELSE w0
        low == SYS_CLOCK_HZ < frequency * (w1 + 1)
        w2 == IF low THEN U16(U16OfFloat(SYS_CLOCK_HZ \div frequency, ub) - 1) ELSE w1
    IN  IF w2 < 2 THEN 2 ELSE w2

\* divider as left by the solver, as the exact fraction num / den.
uart_pwm_divider(frequency, ub) ==
    LET w0 == UART_PWM_SEED_WRAP
        high == frequency <= (SYS_CLOCK_HZ - 1) \div (PWM_MAX_DIVIDER * (w0 + 1))
        w1a == U16(U16OfFloat(SYS_CLOCK_HZ \div (frequency * PWM_MAX_DIVIDER), ub) - 1)
        w1 == IF high THEN (IF w1a < 1 THEN 1 ELSE w1a) ELSE w0
        low == SYS_CLOCK_HZ < frequency * (w1 + 1)
    IN  IF low THEN [num |-> 1, den |-> 1]
        ELSE [num |-> SYS_CLOCK_HZ, den |-> frequency * (w1 + 1)]

start_uart_pwm(s, frequency, ub) ==
    LET s1 == stop_uart_pwm(s) IN
    IF frequency > 0 /\ frequency <= MAX_UART_FREQ
    THEN [s1 EXCEPT !.pwm_clkdiv = uart_pwm_divider(frequency, ub),
                    !.pwm_wrap = uart_pwm_wrap(frequency, ub),
                    !.pwm_level = uart_pwm_wrap(frequency, ub) \div 2,
                    !.pwm_enabled = TRUE,
                    !.uart_pwm_active = TRUE]
    ELSE s1

start_uart_frequency(s, frequency, ub) ==
    LET s1 == stop_uart_frequency(s) IN
    IF frequency > 0 /\ frequency <= MAX_UART_FREQ
    THEN start_uart_pwm(s1, frequency, ub)
    ELSE s1

(***************************************************************************)
(* main.c: set_mode                                                        *)
(***************************************************************************)
\* set_mode without the call of stop_high_frequency (line 324).
set_mode_stop_keeps_pwm(s, mode) ==
    LET s1 == [s EXCEPT !.timer_active = FALSE]
        s3 == stop_uart_frequency(s1)
        s4 == [s3 EXCEPT !.current_mode = mode,
                         !.single_step_active = FALSE,
                         !.uart_clock_running = FALSE]
    IN  set_clock_output(s4, FALSE)

\* Lines 314-330: stop every generator, store the mode, drive the clock low.
set_mode_stop(s, mode) ==
    LET s1 == [s EXCEPT !.timer_active = FALSE]
        s2 == stop_high_frequency(s1)
        s3 == stop_uart_frequency(s2)
        s4 == [s3 EXCEPT !.current_mode = mode,
                         !.single_step_active = FALSE,
                         !.uart_clock_running = FALSE]
    IN  set_clock_output(s4, FALSE)

\* What an observer sees on the clock pin and the generators.
Quiet(s) ==
    ~s.timer_active /\ ~s.pwm_enabled /\ ~s.uart_pwm_active /\ ~s.clock_state

\* status_display.c: the report changes no state of the program.
print_status(s) == [s EXCEPT !.status_printed = TRUE]

\* The entry actions without the clearing of current_frequency on the way
\* into single step and remote control.
set_mode_enter_keeps_frequency(s, mode, t, adc) ==
    CASE mode = MODE_SINGLE_STEP -> s
      [] mode = MODE_LOW_FREQ -> update_low_frequency(s, adc)
      [] mode = MODE_HIGH_FREQ ->
            start_high_frequency([s EXCEPT !.current_frequency = HIGH_FREQ_OUTPUT])
      [] mode = MODE_UART_CONTROL ->
            [s EXCEPT !.uart_set_frequency = 0,
                      !.uart_menu_timeout = t + UART_MENU_TIMEOUT_MS]

\* Lines 332-352: the entry action of the new mode.
set_mode_enter(s, mode, t, adc) ==
    CASE mode = MODE_SINGLE_STEP -> [s EXCEPT !.current_frequency = 0]
      [] mode = MODE_LOW_FREQ -> update_low_frequency(s, adc)
      [] mode = MODE_HIGH_FREQ ->
            start_high_frequency([s EXCEPT !.current_frequency = HIGH_FREQ_OUTPUT])
      [] mode = MODE_UART_CONTROL ->
            [s EXCEPT !.current_frequency = 0,
                      !.uart_set_frequency = 0,
                      !.uart_menu_timeout = t + UART_MENU_TIMEOUT_MS]

\* set_mode that leaves the repeating timer and the remote PWM running.
set_mode_keeps_generators(s, mode, t, adc) ==
    LET s2 == stop_high_frequency(s)
        s4 == [s2 EXCEPT !.current_mode = mode,
                         !.single_step_active = FALSE,
                         !.uart_clock_running = FALSE]
        stopped == set_clock_output(s4, FALSE)
    IN  print_status(set_mode_enter([stopped EXCEPT !.sm_quiet = TRUE], mode, t, adc))

\* set_mode that also abandons the reset session and releases the reset line.
set_mode_ends_reset(s, mode, t, adc) ==
    LET stopped == set_mode_stop(s, mode) IN
    print_status(
        set_mode_enter([stopped EXCEPT !.sm_quiet = Quiet(stopped),
                                       !.reset_active = FALSE,
                                       !.reset_output_state = TRUE],
                       mode, t, adc))

\* sm_quiet records what held between line 330 and the switch of line 332.
set_mode(s, mode, t, adc) ==
    LET stopped == set_mode_stop(s, mode) IN
    print_status(
        set_mode_enter([stopped EXCEPT !.sm_quiet = Quiet(stopped)], mode, t, adc))

(***************************************************************************)
(* button_handler.c                                                        *)
(***************************************************************************)
\* button_pressed with an inclusive comparison of the elapsed time.
button_pressed_inclusive(s, p, pin, button_index, t) ==
    p[pin] /\ (t - s.last_button_time[button_index] >= DEBOUNCE_DELAY_MS)

\* The return value of button_pressed(pin, button_index) at time t.
button_pressed(s, p, pin, button_index, t) ==
    p[pin] /\ (t - s.last_button_time[button_index] > DEBOUNCE_DELAY_MS)

\* button_pressed that writes the time stamp of every input on a true return.
button_pressed_state_stamps_all(s, p, pin, button_index, t) ==
    IF p[pin] /\ (t - s.last_button_time[button_index] > DEBOUNCE_DELAY_MS)
    THEN [s EXCEPT !.last_button_time = [j \in DOMAIN s.last_button_time |-> t]]
    ELSE s

\* The state button_pressed leaves: the timestamp is written on a true return.
button_pressed_state(s, p, pin, button_index, t) ==
    IF button_pressed(s, p, pin, button_index, t)
    THEN [s EXCEPT !.last_button_time[button_index] = t]
    ELSE s

any_button_pressed(p) ==
    p[BUTTON_SINGLE_STEP] \/ p[BUTTON_LOW_FREQ] \/ p[BUTTON_HIGH_FREQ]

handle_buttons(s, p, t, adc) ==
    LET a0 == button_pressed_state(s, p, BUTTON_SINGLE_STEP, 0, t)
        s0 == IF button_pressed(s, p, BUTTON_SINGLE_STEP, 0, t)
              THEN IF a0.current_mode = MODE_SINGLE_STEP
                   THEN [toggle_clock_output(a0) EXCEPT !.single_step_active = TRUE]
                   ELSE set_mode(a0, MODE_SINGLE_STEP, t, adc)
              ELSE a0
        a1 == button_pressed_state(s0, p, BUTTON_LOW_FREQ, 1, t)
        s1 == IF button_pressed(s0, p, BUTTON_LOW_FREQ, 1, t)
              THEN set_mode(a1, MODE_LOW_FREQ, t, adc)
              ELSE a1
        a2 == button_pressed_state(s1, p, BUTTON_HIGH_FREQ, 2, t)
    IN  IF button_pressed(s1, p, BUTTON_HIGH_FREQ, 2, t)
        THEN set_mode(a2, MODE_HIGH_FREQ, t, adc)
        ELSE a2

(***************************************************************************)
(* reset_control.c                                                         *)
(***************************************************************************)
set_reset_output(s, state) == [s EXCEPT !.reset_output_state = state]

\* start_reset_pulse without the call set_reset_output(false) of line 58.
start_reset_pulse_keeps_line(s, t) ==
    [s EXCEPT !.reset_active = TRUE,
              !.reset_cycle_count = 0,
              !.reset_start_time = t,
              !.reset_waiting_for_edge = (s.current_mode = MODE_SINGLE_STEP),
              !.last_clock_state_for_reset = s.clock_state]

start_reset_pulse(s, t) ==
    set_reset_output(
        [s EXCEPT !.reset_active = TRUE,
                  !.reset_cycle_count = 0,
                  !.reset_start_time = t,
                  !.reset_waiting_for_edge = (s.current_mode = MODE_SINGLE_STEP),
                  !.last_clock_state_for_reset = s.clock_state],
        FALSE)

\* handle_reset_button without the test of reset_active (line 45).
handle_reset_button_restarts(s, p, t) ==
    IF p[BUTTON_RESET] /\ (t - s.last_reset_button_time > DEBOUNCE_DELAY_MS)
    THEN start_reset_pulse([s EXCEPT !.last_reset_button_time = t], t)
    ELSE s

handle_reset_button(s, p, t) ==
    IF p[BUTTON_RESET] /\ (t - s.last_reset_button_time > DEBOUNCE_DELAY_MS)
    THEN LET s1 == [s EXCEPT !.last_reset_button_time = t] IN
         IF ~s1.reset_active THEN start_reset_pulse(s1, t) ELSE s1
    ELSE s

\* required_ms of the timed branch (lines 86-105); integer division as in C.
reset_required_ms(s) ==
    LET raw ==
          IF s.current_mode = MODE_LOW_FREQ /\ s.current_frequency > 0
          THEN (RESET_CYCLES * 1000) \div s.current_frequency
          ELSE IF s.current_mode = MODE_HIGH_FREQ
          THEN LET r == (RESET_CYCLES * 1000) \div HIGH_FREQ_OUTPUT IN
               IF r = 0 THEN 1 ELSE r
          ELSE IF s.current_mode = MODE_UART_CONTROL /\ s.uart_set_frequency > 0
          THEN (RESET_CYCLES * 1000) \div s.uart_set_frequency
          ELSE RESET_FALLBACK_MS
    IN  IF raw < RESET_MIN_VISIBLE_MS THEN RESET_MIN_VISIBLE_MS ELSE raw

\* The end of a pulse (lines 76-78 and 108-110).
reset_complete(s, t) ==
    [set_reset_output(s, TRUE) EXCEPT !.reset_active = FALSE,
                                      !.reset_high_led_timer = t]

\* Lines 67-83: the branch taken when the mode is single step at the tick.
update_reset_edge(s, t) ==
    LET edge == s.reset_waiting_for_edge
                /\ ~s.last_clock_state_for_reset /\ s.clock_state
        s1 == IF edge
              THEN [s EXCEPT !.reset_cycle_count = s.reset_cycle_count + 1]
              ELSE s
        s2 == IF edge /\ s1.reset_cycle_count >= RESET_CYCLES
              THEN reset_complete(s1, t)
              ELSE s1
    IN  [s2 EXCEPT !.last_clock_state_for_reset = s.clock_state]

\* Lines 83-113: the branch taken in every other mode.
update_reset_timed(s, t) ==
    LET elapsed_ms == t - s.reset_start_time IN
    IF elapsed_ms >= reset_required_ms(s)
    THEN reset_complete(s, t)
    ELSE s

update_reset_state(s, t) ==
    IF ~s.reset_active THEN s
    ELSE IF s.current_mode = MODE_SINGLE_STEP
    THEN update_reset_edge(s, t)
    ELSE update_reset_timed(s, t)

\* update_reset_leds with the window closed one millisecond later.
update_reset_leds_inclusive(s, t) ==
    IF s.reset_high_led_timer > 0
    THEN IF t - s.reset_high_led_timer <= RESET_HIGH_LED_MS
         THEN [s EXCEPT !.led_reset_high = TRUE]
         ELSE [s EXCEPT !.led_reset_high = FALSE, !.reset_high_led_timer = 0]
    ELSE [s EXCEPT !.led_reset_high = FALSE]

update_reset_leds(s, t) ==
    IF s.reset_high_led_timer > 0
    THEN IF t - s.reset_high_led_timer < RESET_HIGH_LED_MS
         THEN [s EXCEPT !.led_reset_high = TRUE]
         ELSE [s EXCEPT !.led_reset_high = FALSE, !.reset_high_led_timer = 0]
    ELSE [s EXCEPT !.led_reset_high = FALSE]

(***************************************************************************)
(* power_control.c                                                         *)
(***************************************************************************)
set_power_state(s, state) == [s EXCEPT !.power_state = state]

\* toggle_power_state without the mode change (lines 40-43).
toggle_power_state_keeps_mode(s, t, adc) == set_power_state(s, ~s.power_state)

toggle_power_state(s, t, adc) ==
    LET old_power_state == s.power_state
        s1 == set_power_state(s, ~s.power_state)
    IN  IF ~old_power_state /\ s1.power_state
        THEN set_mode(s1, MODE_SINGLE_STEP, t, adc)
        ELSE s1

handle_power_button(s, p, t, adc) ==
    IF p[BUTTON_POWER] /\ (t - s.last_power_button_time > DEBOUNCE_DELAY_MS)
    THEN toggle_power_state([s EXCEPT !.last_power_button_time = t], t, adc)
    ELSE s

(***************************************************************************)
(* uart_control.c: command interpreter                                     *)
(* A line is a sequence of one-character strings; the terminators and the  *)
(* editing bytes are the tokens CR, LF, BS, DEL, and ESC stands for any    *)
(* other control byte.                                                     *)
(***************************************************************************)
CR == "CR"
LF == "LF"
BS == "BS"
DEL == "DEL"
ESC == "ESC"
Digits == {"0", "1", "2", "3", "4", "5", "6", "7", "8", "9"}
Letters == {"a", "b", "c", "d", "e", "f", "g", "h", "i", "j", "k", "l", "m",
            "n", "o", "p", "q", "r", "s", "t", "u", "v", "w", "x", "y", "z",
            "S", "T", "O", "P"}
\* The bytes with 32 <= c < 127 that the model uses.
Printable == Digits \cup Letters \cup {" ", "+", "-"}

DigitVal(c) ==
    CASE c = "0" -> 0 [] c = "1" -> 1 [] c = "2" -> 2 [] c = "3" -> 3
      [] c = "4" -> 4 [] c = "5" -> 5 [] c = "6" -> 6 [] c = "7" -> 7
      [] c = "8" -> 8 [] c = "9" -> 9

RECURSIVE SkipSpaces(_)
\* while (*p == ' ') p++
SkipSpaces(str) ==
    IF str # <<>> /\ Head(str) = " " THEN SkipSpaces(Tail(str)) ELSE str

RECURSIVE DigitRun(_)
\* Number of leading decimal digits of str.
DigitRun(str) ==
    IF str # <<>> /\ Head(str) \in Digits THEN 1 + DigitRun(Tail(str)) ELSE 0

RECURSIVE DigitsValue(_, _, _)
\* Value of the first n digits of str on top of acc, saturating above LONG_MAX.
DigitsValue(str, n, acc) ==
    IF n = 0 THEN acc
    ELSE LET v == acc * 10 + DigitVal(Head(str)) IN
         DigitsValue(Tail(str), n - 1, IF v > LONG_MAX THEN LONG_MAX + 1 ELSE v)

\* strtol(str, &endptr, 10) with a 32-bit long: optional white space, an
\* optional sign, decimal digits.  consumed is endptr - str (0: no conversion).
strtol(str) ==
    LET body == SkipSpaces(str)
        signed == body # <<>> /\ Head(body) \in {"+", "-"}
        neg == signed /\ Head(body) = "-"
        digs == IF signed THEN Tail(body) ELSE body
        n == DigitRun(digs)
        mag == DigitsValue(digs, n, 0)
    IN  IF n = 0 THEN [value |-> 0, consumed |-> 0]
        ELSE [value |-> IF neg THEN (IF mag > LONG_MAX THEN -LONG_MAX - 1 ELSE -mag)
                        ELSE (IF mag > LONG_MAX THEN LONG_MAX ELSE mag),
              consumed |-> (Len(str) - Len(digs)) + n]

CMD_STOP == <<"s", "t", "o", "p">>
CMD_TOGGLE == <<"t", "o", "g", "g", "l", "e">>
CMD_FREQ == <<"f", "r", "e", "q", " ">>
CMD_MENU == <<"m", "e", "n", "u">>
CMD_STATUS == <<"s", "t", "a", "t", "u", "s">>
CMD_RESET == <<"r", "e", "s", "e", "t">>
CMD_POWER_ON == <<"p", "o", "w", "e", "r", " ", "o", "n">>
CMD_POWER_OFF == <<"p", "o", "w", "e", "r", " ", "o", "f", "f">>

\* The freq branch without the assignment of uart_clock_running (line 151).
process_freq_command_not_running(s, arg, ub) ==
    LET freq_str == SkipSpaces(arg)
        r == strtol(freq_str)
    IN  IF Len(freq_str) = 0 THEN s
        ELSE IF r.consumed = 0 \/ r.consumed < Len(freq_str) THEN s
        ELSE IF r.value < MIN_UART_FREQ \/ r.value > MAX_UART_FREQ THEN s
        ELSE start_uart_frequency([s EXCEPT !.uart_set_frequency = r.value],
                                  r.value, ub)

\* The freq branch without the range test of line 146.
process_freq_command_unchecked(s, arg, ub) ==
    LET freq_str == SkipSpaces(arg)
        r == strtol(freq_str)
    IN  IF Len(freq_str) = 0 THEN s
        ELSE IF r.consumed = 0 \/ r.consumed < Len(freq_str) THEN s
        ELSE [start_uart_frequency([s EXCEPT !.uart_set_frequency = r.value],
                                   r.value, ub)
                 EXCEPT !.uart_clock_running = TRUE]

\* The freq branch (lines 130-154).
process_freq_command(s, arg, ub) ==
    LET freq_str == SkipSpaces(arg)
        r == strtol(freq_str)
    IN  IF Len(freq_str) = 0 THEN s
        ELSE IF r.consumed = 0 \/ r.consumed < Len(freq_str) THEN s
        ELSE IF r.value < MIN_UART_FREQ \/ r.value > MAX_UART_FREQ THEN s
        ELSE [start_uart_frequency([s EXCEPT !.uart_set_frequency = r.value],
                                   r.value, ub)
                 EXCEPT !.uart_clock_running = TRUE]

\* The branches of process_uart_command (lines 118-191).
process_uart_branch(s, cmd, t, adc, ub) ==
    IF cmd = CMD_STOP
    THEN set_clock_output(
             [stop_uart_frequency(s) EXCEPT !.uart_clock_running = FALSE], FALSE)
    ELSE IF cmd = CMD_TOGGLE
    THEN [toggle_clock_output(stop_uart_frequency(s))
             EXCEPT !.uart_clock_running = FALSE]
    ELSE IF Len(cmd) >= 5 /\ SubSeq(cmd, 1, 5) = CMD_FREQ
    THEN process_freq_command(s, SubSeq(cmd, 6, Len(cmd)), ub)
    ELSE IF cmd = CMD_MENU THEN s
    ELSE IF cmd = CMD_STATUS THEN print_status(s)
    ELSE IF cmd = CMD_RESET
    THEN IF ~s.reset_active THEN start_reset_pulse(s, t) ELSE s
    ELSE IF cmd = CMD_POWER_ON
    THEN LET old_power_state == s.power_state
             s1 == set_power_state(s, TRUE)
         IN  IF ~old_power_state /\ s1.power_state
             THEN set_mode(s1, MODE_SINGLE_STEP, t, adc)
             ELSE s1
    ELSE IF cmd = CMD_POWER_OFF THEN set_power_state(s, FALSE)
    ELSE s

\* The freq branch returns at line 137, before the prompt of line 193, when
\* no value follows "freq ".
returns_before_prompt(cmd) ==
    /\ Len(cmd) >= 5
    /\ SubSeq(cmd, 1, 5) = CMD_FREQ
    /\ SkipSpaces(SubSeq(cmd, 6, Len(cmd))) = <<>>

process_uart_command(s, line, t, adc, ub) ==
    LET cmd == SkipSpaces(line) IN
    [process_uart_branch(s, cmd, t, adc, ub)
        EXCEPT !.cmd_prompted = ~returns_before_prompt(cmd)]

\* The receive loop without the deadline update of line 73.
uart_receive_byte_keeps_deadline(s, c, t, adc, ub) ==
    IF c = CR \/ c = LF
    THEN IF Len(s.uart_cmd_buffer) > 0
         THEN [process_uart_command(s, s.uart_cmd_buffer, t, adc, ub)
                  EXCEPT !.uart_cmd_buffer = <<>>]
         ELSE [s EXCEPT !.cmd_prompted = TRUE]
    ELSE IF c = BS \/ c = DEL
    THEN IF Len(s.uart_cmd_buffer) > 0
         THEN [s EXCEPT !.uart_cmd_buffer =
                            SubSeq(s.uart_cmd_buffer, 1, Len(s.uart_cmd_buffer) - 1)]
         ELSE s
    ELSE IF Len(s.uart_cmd_buffer) < UART_CMD_BUFFER_SIZE - 1 /\ c \in Printable
    THEN [s EXCEPT !.uart_cmd_buffer = Append(s.uart_cmd_buffer, c)]
    ELSE s

\* The receive loop without the capacity test of line 86.
uart_receive_byte_unbounded(s, c, t, adc, ub) ==
    LET s1 == [s EXCEPT !.uart_menu_timeout = t + UART_MENU_TIMEOUT_MS] IN
    IF c = CR \/ c = LF
    THEN IF Len(s1.uart_cmd_buffer) > 0
         THEN [process_uart_command(s1, s1.uart_cmd_buffer, t, adc, ub)
                  EXCEPT !.uart_cmd_buffer = <<>>]
         ELSE [s1 EXCEPT !.cmd_prompted = TRUE]
    ELSE IF c = BS \/ c = DEL
    THEN IF Len(s1.uart_cmd_buffer) > 0
         THEN [s1 EXCEPT !.uart_cmd_buffer =
                             SubSeq(s1.uart_cmd_buffer, 1, Len(s1.uart_cmd_buffer) - 1)]
         ELSE s1
    ELSE IF c \in Printable
    THEN [s1 EXCEPT !.uart_cmd_buffer = Append(s1.uart_cmd_buffer, c)]
    ELSE s1

\* One pass of the receive loop of handle_uart_control (lines 69-95) on the
\* byte c.  The buffer holds the uart_cmd_index characters typed so far.
uart_receive_byte(s, c, t, adc, ub) ==
    LET s1 == [s EXCEPT !.uart_menu_timeout = t + UART_MENU_TIMEOUT_MS] IN
    IF c = CR \/ c = LF
    THEN IF Len(s1.uart_cmd_buffer) > 0
         THEN [process_uart_command(s1, s1.uart_cmd_buffer, t, adc, ub)
                  EXCEPT !.uart_cmd_buffer = <<>>]
         ELSE [s1 EXCEPT !.cmd_prompted = TRUE]
    ELSE IF c = BS \/ c = DEL
    THEN IF Len(s1.uart_cmd_buffer) > 0
         THEN [s1 EXCEPT !.uart_cmd_buffer =
                             SubSeq(s1.uart_cmd_buffer, 1, Len(s1.uart_cmd_buffer) - 1)]
         ELSE s1
    ELSE IF Len(s1.uart_cmd_buffer) < UART_CMD_BUFFER_SIZE - 1 /\ c \in Printable
    THEN [s1 EXCEPT !.uart_cmd_buffer = Append(s1.uart_cmd_buffer, c)]
    ELSE s1

\* reset_uart_control_state (lines 303-308); no code under src/ calls it.
reset_uart_control_state(s) ==
    stop_uart_frequency([s EXCEPT !.uart_clock_running = FALSE,
                                  !.uart_set_frequency = 0,
                                  !.uart_cmd_buffer = <<>>])

(***************************************************************************)
(* Environment: bounded inputs                                             *)
(***************************************************************************)
\* Number of 10 ms polls of the "fast" schedule.
FastPolls == 2

\* A schedule fixes the instants at which a sleep may return and the inputs
\* that are in use.  sleep_ms(n) returns at the first instant of the schedule
\* that is at least n ms away.
\*   fast:   polls 10 ms apart (the nominal period), after a 5 ms step
\*   reset:  a timed reset session and the 250 ms that follow its completion
\*   switch: mode changes while a reset session is active
\*   pot:    the potentiometer turned in the low-frequency mode
\*   power:  the power button in the generating modes
\*   long:   the 3 s hold that opens remote control, polls there, inactivity
\*   remote: the reset and power buttons pressed in remote control
\*   cmd:    two command lines in remote control
\*   debounce: a poll exactly DEBOUNCE_DELAY_MS after another
\*   retype: remote control entered, left and entered again
Schedules ==
    {"fast", "reset", "switch", "pot", "power", "long", "remote", "cmd", "debounce",
     "retype"}

PollTimes(name) ==
    CASE name = "fast" -> {60, 65} \cup {65 + UPDATE_INTERVAL_MS * k : k \in 1..FastPolls}
      [] name = "reset" -> {60, 120, 180, 370}
      [] name = "switch" -> {60, 120, 180, 240}
      [] name = "pot" -> {60, 120, 180}
      [] name = "power" -> {60, 120, 180}
      [] name = "long" -> {60, 70, 3070, 3130, 3190, 33080}
      [] name = "remote" -> {60, 3060, 3120}
      [] name = "cmd" -> {60, 3060, 3120, 3180}
      [] name = "debounce" -> {60, 60 + DEBOUNCE_DELAY_MS, 170}
      [] name = "retype" -> {60, 3060, 3120, 3180, 3240, 6240, 6300}

LivePins(name) ==
    CASE name = "fast" -> {BUTTON_HIGH_FREQ, BUTTON_RESET}
      [] name = "reset" -> {BUTTON_LOW_FREQ, BUTTON_RESET}
      [] name = "switch" -> {BUTTON_SINGLE_STEP, BUTTON_LOW_FREQ, BUTTON_RESET}
      [] name = "pot" -> {BUTTON_LOW_FREQ, BUTTON_RESET}
      [] name = "power" -> {BUTTON_LOW_FREQ, BUTTON_HIGH_FREQ, BUTTON_POWER}
      [] name = "long" -> {BUTTON_LOW_FREQ}
      [] name = "remote" -> {BUTTON_HIGH_FREQ, BUTTON_RESET, BUTTON_POWER}
      [] name = "cmd" -> {BUTTON_SINGLE_STEP}
      [] name = "debounce" -> {BUTTON_SINGLE_STEP}
      [] name = "retype" -> {BUTTON_SINGLE_STEP}

\* Potentiometer samples: 7 Hz and 100 Hz (the end of the first range).
AdcValues == {50, 819}

LiveAdc(name) == IF name = "pot" THEN {50, 819} ELSE {819}

\* What a terminal sends in one go.
RxLines ==
    { <<"r", "e", "s", "e", "t", CR>>,
      <<"p", "o", "w", "e", "r", " ", "o", "n", CR>>,
      <<"p", "o", "w", "e", "r", " ", "o", "f", "f", CR>>,
      <<"f", "r", "e", "q", " ", "5", "0", CR>>,
      <<"s", "t", "o", "p", CR>>,
      <<"t", "o", "g", "g", "l", "e", CR>>,
      <<"x">> }

\* A line longer than the command buffer.
OverlongLine == [i \in 1..(UART_CMD_BUFFER_SIZE + 1) |-> "x"]

\* Command lines: accepted, rejected and empty ones.
CmdLines ==
    { <<"f", "r", "e", "q", " ", "5", "0", CR, LF>>,
      <<"f", "r", "e", "q", " ", "1", CR>>,
      <<"f", "r", "e", "q", " ", "1", "0", "0", "0", "0", "0", "0", CR>>,
      <<"f", "r", "e", "q", " ", "+", "5", "0", CR>>,
      <<"f", "r", "e", "q", " ", "5", "x", CR>>,
      <<"f", "r", "e", "q", " ", "0", CR>>,
      <<"f", "r", "e", "q", " ", "2", "0", "0", "0", "0", "0", "0", CR>>,
      <<"f", "r", "e", "q", " ", CR>>,
      <<"b", "o", "g", "u", "s", CR>>,
      <<"S", "T", "O", "P", CR>>,
      <<" ", " ", CR>>,
      <<"s", "t", "o", "p", CR>>,
      <<"t", "o", "g", "g", "l", "e", CR>>,
      <<"m", "e", "n", "u", CR>>,
      <<"s", "t", "a", "t", "u", "s", CR>>,
      <<"p", "o", "w", "e", "r", " ", "o", "n", CR,
        "f", "r", "e", "q", " ", "5", "0", CR>>,
      OverlongLine }

\* An unfinished line, and a line corrected with a backspace.
RetypeLines ==
    { <<"x">>,
      <<"s", "t", "o", "x", BS, "p", CR>> }

LiveLines(name) ==
    CASE name = "long" -> RxLines
      [] name = "cmd" -> CmdLines
      [] name = "retype" -> RetypeLines
      [] OTHER -> {}

HasTime(least) == \E x \in PollTimes(sched) : x >= least

TimeAfter(least) ==
    CHOOSE x \in PollTimes(sched) :
        x >= least /\ \A y \in PollTimes(sched) : y >= least => x <= y

(***************************************************************************)
(* Initial state: the statics of the C files, then main() up to the loop   *)
(***************************************************************************)
StaticState ==
    [current_mode |-> MODE_SINGLE_STEP, previous_mode |-> MODE_SINGLE_STEP,
     last_button_time |-> [i \in 0..4 |-> 0], clock_state |-> FALSE,
     current_frequency |-> 0, single_step_active |-> FALSE,
     timer_active |-> FALSE, pwm_enabled |-> FALSE,
     pwm_clkdiv |-> [num |-> 1, den |-> 1], pwm_wrap |-> PWM_MAX_WRAP,
     pwm_level |-> 0, uart_clock_running |-> FALSE, uart_set_frequency |-> 0,
     uart_cmd_buffer |-> <<>>, uart_menu_timeout |-> 0,
     uart_pwm_active |-> FALSE, reset_active |-> FALSE,
     reset_output_state |-> TRUE, reset_cycle_count |-> 0,
     reset_start_time |-> 0, reset_high_led_timer |-> 0,
     reset_waiting_for_edge |-> FALSE, last_clock_state_for_reset |-> FALSE,
     last_reset_button_time |-> 0, led_reset_high |-> FALSE,
     power_state |-> FALSE, last_power_button_time |-> 0,
     sm_quiet |-> TRUE, cmd_prompted |-> TRUE, reported |-> {},
     status_printed |-> FALSE]

\* main.c line 120: set_mode(MODE_SINGLE_STEP) before the loop.
InitState == set_mode(StaticState, MODE_SINGLE_STEP, 0, 0)

Init ==
    /\ current_mode = InitState.current_mode
    /\ previous_mode = InitState.previous_mode
    /\ last_button_time = InitState.last_button_time
    /\ clock_state = InitState.clock_state
    /\ current_frequency = InitState.current_frequency
    /\ single_step_active = InitState.single_step_active
    /\ timer_active = InitState.timer_active
    /\ pwm_enabled = InitState.pwm_enabled
    /\ pwm_clkdiv = InitState.pwm_clkdiv
    /\ pwm_wrap = InitState.pwm_wrap
    /\ pwm_level = InitState.pwm_level
    /\ uart_clock_running = InitState.uart_clock_running
    /\ uart_set_frequency = InitState.uart_set_frequency
    /\ uart_cmd_buffer = InitState.uart_cmd_buffer
    /\ uart_menu_timeout = InitState.uart_menu_timeout
    /\ uart_pwm_active = InitState.uart_pwm_active
    /\ reset_active = InitState.reset_active
    /\ reset_output_state = InitState.reset_output_state
    /\ reset_cycle_count = InitState.reset_cycle_count
    /\ reset_start_time = InitState.reset_start_time
    /\ reset_high_led_timer = InitState.reset_high_led_timer
    /\ reset_waiting_for_edge = InitState.reset_waiting_for_edge
    /\ last_clock_state_for_reset = InitState.last_clock_state_for_reset
    /\ last_reset_button_time = InitState.last_reset_button_time
    /\ led_reset_high = InitState.led_reset_high
    /\ power_state = InitState.power_state
    /\ last_power_button_time = InitState.last_power_button_time
    /\ sm_quiet = InitState.sm_quiet
    /\ cmd_prompted = InitState.cmd_prompted
    /\ reported = InitState.reported
    /\ status_printed = InitState.status_printed
    /\ button_hold_start = 0
    /\ button_held = FALSE
    /\ pc = "hold"
    /\ now = 0
    /\ pins = [i \in Buttons |-> FALSE]
    /\ rx = <<>>
    /\ sched \in Schedules
    /\ adc_value \in LiveAdc(sched)

(***************************************************************************)
(* main.c: the polling loop, one action per step                           *)
(***************************************************************************)
\* The hold gesture without the assignment of previous_mode (line 141).
MainHoldCheckForgetsMode ==
    /\ pc = "hold"
    /\ UNCHANGED envVars
    /\ IF current_mode # MODE_UART_CONTROL
       THEN IF any_button_pressed(pins)
            THEN /\ pc' = "mode"
                 /\ IF ~button_held
                    THEN /\ button_hold_start' = now
                         /\ button_held' = TRUE
                         /\ UNCHANGED progVars
                    ELSE IF now - button_hold_start >= HOLD_FOR_UART_MS
                    THEN /\ Commit(set_mode(S, MODE_UART_CONTROL, now, adc_value))
                         /\ button_held' = FALSE
                         /\ UNCHANGED button_hold_start
                    ELSE UNCHANGED <<progVars, button_hold_start, button_held>>
            ELSE /\ pc' = IF button_held THEN "release_sleep" ELSE "mode"
                 /\ UNCHANGED <<progVars, button_hold_start, button_held>>
       ELSE /\ pc' = "mode"
            /\ UNCHANGED <<progVars, button_hold_start, button_held>>

\* The hold gesture with a strict comparison of the hold time (line 140).
MainHoldCheckStrict ==
    /\ pc = "hold"
    /\ UNCHANGED envVars
    /\ IF current_mode # MODE_UART_CONTROL
       THEN IF any_button_pressed(pins)
            THEN /\ pc' = "mode"
                 /\ IF ~button_held
                    THEN /\ button_hold_start' = now
                         /\ button_held' = TRUE
                         /\ UNCHANGED progVars
                    ELSE IF now - button_hold_start > HOLD_FOR_UART_MS
                    THEN /\ Commit(set_mode([S EXCEPT !.previous_mode = current_mode],
                                            MODE_UART_CONTROL, now, adc_value))
                         /\ button_held' = FALSE
                         /\ UNCHANGED button_hold_start
                    ELSE UNCHANGED <<progVars, button_hold_start, button_held>>
            ELSE /\ pc' = IF button_held THEN "release_sleep" ELSE "mode"
                 /\ UNCHANGED <<progVars, button_hold_start, button_held>>
       ELSE /\ pc' = "mode"
            /\ UNCHANGED <<progVars, button_hold_start, button_held>>

\* Lines 131-156: the hold gesture that opens remote control.
MainHoldCheck ==
    /\ pc = "hold"
    /\ UNCHANGED envVars
    /\ IF current_mode # MODE_UART_CONTROL
       THEN IF any_button_pressed(pins)
            THEN /\ pc' = "mode"
                 /\ IF ~button_held
                    THEN /\ button_hold_start' = now
                         /\ button_held' = TRUE
                         /\ UNCHANGED progVars
                    ELSE IF now - button_hold_start >= HOLD_FOR_UART_MS
                    THEN /\ Commit(set_mode([S EXCEPT !.previous_mode = current_mode],
                                            MODE_UART_CONTROL, now, adc_value))
                         /\ button_held' = FALSE
                         /\ UNCHANGED button_hold_start
                    ELSE UNCHANGED <<progVars, button_hold_start, button_held>>
            ELSE /\ pc' = IF button_held THEN "release_sleep" ELSE "mode"
                 /\ UNCHANGED <<progVars, button_hold_start, button_held>>
       ELSE /\ pc' = "mode"
            /\ UNCHANGED <<progVars, button_hold_start, button_held>>

\* Line 151: sleep_ms(50) after a release.
MainReleaseSleep ==
    /\ pc = "release_sleep"
    /\ HasTime(now + RELEASE_DEBOUNCE_SLEEP_MS)
    /\ now' = TimeAfter(now + RELEASE_DEBOUNCE_SLEEP_MS)
    /\ pc' = "release_buttons"
    /\ UNCHANGED <<progVars, button_hold_start, button_held, pins, adc_value, rx, sched>>

\* Lines 152-154: handle_buttons() after the sleep, then button_held = false.
MainReleaseButtons ==
    /\ pc = "release_buttons"
    /\ Commit(handle_buttons(S, pins, now, adc_value))
    /\ button_held' = FALSE
    /\ pc' = "mode"
    /\ UNCHANGED <<button_hold_start, envVars>>

\* Lines 159-160.
MainUpdateLowFrequency ==
    /\ pc = "mode"
    /\ current_mode = MODE_LOW_FREQ
    /\ Commit(update_low_frequency(S, adc_value))
    /\ pc' = "reset_button"
    /\ UNCHANGED <<button_hold_start, button_held, envVars>>

\* Lines 161-162 and uart_control.c lines 47-66: the exits of remote control;
\* when neither is taken the receive loop follows.
MainHandleUartControl ==
    /\ pc = "mode"
    /\ current_mode = MODE_UART_CONTROL
    /\ IF any_button_pressed(pins) \/ now > uart_menu_timeout
       THEN /\ Commit(set_mode(S, previous_mode, now, adc_value))
            /\ pc' = "reset_button"
       ELSE /\ UNCHANGED progVars
            /\ pc' = IF rx = <<>> THEN "reset_button" ELSE "uart_receive"
    /\ UNCHANGED <<button_hold_start, button_held, envVars>>

\* uart_control.c lines 69-95: one byte of the receive loop.  The loop goes on
\* while bytes are readable, whatever the byte did.
UartReceiveByte ==
    /\ pc = "uart_receive"
    /\ rx # <<>>
    /\ \E ub \in UbOutcomes :
          Commit(uart_receive_byte(S, Head(rx), now, adc_value, ub))
    /\ rx' = Tail(rx)
    /\ pc' = IF Tail(rx) = <<>> THEN "reset_button" ELSE "uart_receive"
    /\ UNCHANGED <<button_hold_start, button_held, now, pins, adc_value, sched>>

\* Lines 163-166: the mode buttons, unless a hold is being timed.
MainHandleButtons ==
    /\ pc = "mode"
    /\ current_mode \notin {MODE_LOW_FREQ, MODE_UART_CONTROL}
    /\ IF ~button_held
       THEN Commit(handle_buttons(S, pins, now, adc_value))
       ELSE UNCHANGED progVars
    /\ pc' = "reset_button"
    /\ UNCHANGED <<button_hold_start, button_held, envVars>>

\* Line 169.
MainHandleResetButton ==
    /\ pc = "reset_button"
    /\ Commit(handle_reset_button(S, pins, now))
    /\ pc' = "reset_state"
    /\ UNCHANGED <<button_hold_start, button_held, envVars>>

\* Between lines 169 and 170: the handlers take time (start_reset_pulse
\* prints a line), so the clock read of update_reset_state may be later than
\* the one of handle_reset_button, by less than one polling period.
MainHandlerRunTime ==
    /\ pc = "reset_state"
    /\ \E x \in PollTimes(sched) :
          /\ now < x
          /\ x < now + UPDATE_INTERVAL_MS
          /\ now' = x
    /\ UNCHANGED <<progVars, loopVars, pins, adc_value, rx, sched>>

\* Line 170.
MainUpdateResetState ==
    /\ pc = "reset_state"
    /\ Commit(update_reset_state(S, now))
    /\ pc' = "reset_leds"
    /\ UNCHANGED <<button_hold_start, button_held, envVars>>

\* Line 171.
MainUpdateResetLeds ==
    /\ pc = "reset_leds"
    /\ Commit(update_reset_leds(S, now))
    /\ pc' = "power_button"
    /\ UNCHANGED <<button_hold_start, button_held, envVars>>

\* Lines 174-175.
MainHandlePowerButton ==
    /\ pc = "power_button"
    /\ Commit(handle_power_button(S, pins, now, adc_value))
    /\ pc' = "sleep"
    /\ UNCHANGED <<button_hold_start, button_held, envVars>>

\* Line 177: sleep_ms(UPDATE_INTERVAL_MS).
MainSleep ==
    /\ pc = "sleep"
    /\ HasTime(now + UPDATE_INTERVAL_MS)
    /\ now' = TimeAfter(now + UPDATE_INTERVAL_MS)
    /\ pc' = "hold"
    /\ UNCHANGED <<progVars, button_hold_start, button_held, pins, adc_value, rx, sched>>

\* clock_generator.c lines 80-83: the repeating timer fires (interrupt).  The
\* level it leaves is read next by the reset handlers, so it is let fire
\* during the sleep and right before them.
low_freq_timer_callback ==
    /\ timer_active
    /\ pc \in {"sleep", "reset_button"}
    /\ Commit(toggle_clock_output(S))
    /\ UNCHANGED <<loopVars, envVars>>

(***************************************************************************)
(* Environment actions.  An input changes where the next read can see the  *)
(* change: a mode button before either of its two reads of an iteration,   *)
(* the other inputs while the loop sleeps.                                 *)
(***************************************************************************)
PinChange(i) ==
    /\ i \in LivePins(sched)
    /\ IF i \in ModeButtons
       THEN pc \in {"sleep", "mode", "release_sleep"}
       ELSE pc = "sleep"
    /\ pins' = [pins EXCEPT ![i] = ~pins[i]]
    /\ Commit([S EXCEPT !.reported = @ \ {i}])
    /\ UNCHANGED <<loopVars, now, adc_value, rx, sched>>

TurnPot(a) ==
    /\ pc \in {"sleep", "release_sleep"}
    /\ a \in LiveAdc(sched)
    /\ a # adc_value
    /\ adc_value' = a
    /\ UNCHANGED <<progVars, loopVars, now, pins, rx, sched>>

UartArrive(line) ==
    /\ pc = "sleep"
    /\ line \in LiveLines(sched)
    /\ rx = <<>>
    /\ rx' = line
    /\ UNCHANGED <<progVars, loopVars, now, pins, adc_value, sched>>

Next ==
    \/ MainHoldCheck
    \/ MainReleaseSleep
    \/ MainReleaseButtons
    \/ MainUpdateLowFrequency
    \/ MainHandleUartControl
    \/ UartReceiveByte
    \/ MainHandleButtons
    \/ MainHandleResetButton
    \/ MainHandlerRunTime
    \/ MainUpdateResetState
    \/ MainUpdateResetLeds
    \/ MainHandlePowerButton
    \/ MainSleep
    \/ low_freq_timer_callback
    \/ \E i \in Buttons : PinChange(i)
    \/ \E a \in AdcValues : TurnPot(a)
    \/ \E line \in RxLines \cup CmdLines \cup RetypeLines : UartArrive(line)

Spec == Init /\ [][Next]_vars

(***************************************************************************)
(* The potentiometer swept over the whole range of the 12-bit converter in *)
(* the low-frequency mode, one step per iteration of the loop.             *)
(***************************************************************************)
\* The low-frequency button accepted at 60 ms with the potentiometer at 0.
PotStart ==
    set_mode([InitState EXCEPT !.last_button_time[1] = 60], MODE_LOW_FREQ, 60, 0)

PotInit ==
    /\ current_mode = PotStart.current_mode
    /\ previous_mode = PotStart.previous_mode
    /\ last_button_time = PotStart.last_button_time
    /\ clock_state = PotStart.clock_state
    /\ current_frequency = PotStart.current_frequency
    /\ single_step_active = PotStart.single_step_active
    /\ timer_active = PotStart.timer_active
    /\ pwm_enabled = PotStart.pwm_enabled
    /\ pwm_clkdiv = PotStart.pwm_clkdiv
    /\ pwm_wrap = PotStart.pwm_wrap
    /\ pwm_level = PotStart.pwm_level
    /\ uart_clock_running = PotStart.uart_clock_running
    /\ uart_set_frequency = PotStart.uart_set_frequency
    /\ uart_cmd_buffer = PotStart.uart_cmd_buffer
    /\ uart_menu_timeout = PotStart.uart_menu_timeout
    /\ uart_pwm_active = PotStart.uart_pwm_active
    /\ reset_active = PotStart.reset_active
    /\ reset_output_state = PotStart.reset_output_state
    /\ reset_cycle_count = PotStart.reset_cycle_count
    /\ reset_start_time = PotStart.reset_start_time
    /\ reset_high_led_timer = PotStart.reset_high_led_timer
    /\ reset_waiting_for_edge = PotStart.reset_waiting_for_edge
    /\ last_clock_state_for_reset = PotStart.last_clock_state_for_reset
    /\ last_reset_button_time = PotStart.last_reset_button_time
    /\ led_reset_high = PotStart.led_reset_high
    /\ power_state = PotStart.power_state
    /\ last_power_button_time = PotStart.last_power_button_time
    /\ sm_quiet = PotStart.sm_quiet
    /\ cmd_prompted = PotStart.cmd_prompted
    /\ reported = PotStart.reported
    /\ status_printed = PotStart.status_printed
    /\ button_hold_start = 0
    /\ button_held = FALSE
    /\ pc = "mode"
    /\ now = 60
    /\ pins = [i \in Buttons |-> FALSE]
    /\ rx = <<>>
    /\ sched = "pot"
    /\ adc_value = 0

\* The rest of an iteration in which no button is pressed and no reset
\* session runs (lines 169-177 and 131-156 change nothing then), while the
\* potentiometer moves up by one step of the converter.
PotIteration ==
    /\ pc = "reset_button"
    /\ adc_value < ADC_MAX
    /\ adc_value' = adc_value + 1
    /\ now' = now + UPDATE_INTERVAL_MS
    /\ pc' = "mode"
    /\ UNCHANGED <<progVars, button_hold_start, button_held, pins, rx, sched>>

PotNext ==
    \/ MainUpdateLowFrequency
    \/ PotIteration

PotSpec == PotInit /\ [][PotNext]_vars

(***************************************************************************)
(* Properties                                                              *)
(***************************************************************************)
\* One tick of update_reset_state (the step of line 170 itself).
ResetTick == pc = "reset_state" /\ pc' = "reset_leds"

\* A complete line in the receive loop whose terminator is read next.
CommandDue(cmd) ==
    /\ pc = "uart_receive"
    /\ rx # <<>>
    /\ Head(rx) \in {CR, LF}
    /\ SkipSpaces(uart_cmd_buffer) = cmd

\* The fixed 1 MHz PWM runs: the slice is enabled with the configuration of
\* start_high_frequency (the remote solver never leaves a wrap below 2).
HighFrequencyPwmActive ==
    /\ pwm_enabled
    /\ pwm_wrap = 1
    /\ pwm_clkdiv = [num |-> 125, den |-> 1]

ActiveGenerators ==
    {g \in {"timer", "high_frequency", "remote"} :
        \/ g = "timer" /\ timer_active
        \/ g = "high_frequency" /\ HighFrequencyPwmActive
        \/ g = "remote" /\ uart_pwm_active}

\* C1: every call of set_mode stops the software toggle timer, the fixed
\* 1 MHz PWM and the remote PWM and drives the clock low before the entry
\* action of the new mode runs (in every call made so far, and in a call made
\* from any reachable state); when set_mode(MODE_SINGLE_STEP) or
\* set_mode(MODE_UART_CONTROL) returns, no generator is active and the clock
\* output is low.
C1_SetModeStopsAllGeneration ==
    /\ sm_quiet
    /\ \A mode \in clock_mode_t : Quiet(set_mode_stop(S, mode))
    /\ \A mode \in {MODE_SINGLE_STEP, MODE_UART_CONTROL} :
          Quiet(set_mode(S, mode, now, adc_value))

\* The power button has just forced single step while the 1 MHz PWM had been
\* configured: set_mode stopped a running generator.
C1_Witness ==
    /\ current_mode = MODE_SINGLE_STEP
    /\ pc = "sleep"
    /\ power_state
    /\ last_power_button_time = now
    /\ last_button_time[2] > 0
    /\ last_button_time[2] >= last_button_time[1]
    /\ pwm_wrap = 1
    /\ Quiet(S)

\* C2: at most one of the software toggle timer, the fixed 1 MHz PWM and the
\* remote PWM is active.
C2_AtMostOneGenerator == Cardinality(ActiveGenerators) <= 1

\* The 1 MHz PWM runs after the low-frequency timer had been selected: one
\* generator was stopped and another started.
C2_Witness ==
    /\ HighFrequencyPwmActive
    /\ current_mode = MODE_HIGH_FREQ
    /\ last_button_time[1] > 0
    /\ last_button_time[2] > last_button_time[1]

\* C3: at every tick of an active session update_reset_state applies edge
\* counting exactly when the mode was single step at the trigger (the captured
\* reset_waiting_for_edge), and the time budget otherwise, whatever the mode
\* is at the tick.
C3_StrategyFixedAtTrigger ==
    [][ResetTick /\ reset_active =>
          S' = IF reset_waiting_for_edge
               THEN update_reset_edge(S, now)
               ELSE update_reset_timed(S, now)]_vars

\* C4: a session triggered in single step refreshes the level snapshot on
\* every tick, counts the low-to-high transitions only, and completes exactly
\* at the tick that observes the sixth of them, never before.
C4_EdgeSessionCompletesOnSixthEdge ==
    [][ResetTick /\ reset_active /\ reset_waiting_for_edge =>
          LET rising == ~last_clock_state_for_reset /\ clock_state IN
          /\ last_clock_state_for_reset' = clock_state
          /\ reset_cycle_count' = reset_cycle_count + (IF rising THEN 1 ELSE 0)
          /\ ~reset_active' <=> (rising /\ reset_cycle_count + 1 = 6)]_vars

\* C5: while a session is active, a further reset request (the reset button
\* or the reset command) leaves the start time, the cycle count, the captured
\* strategy, the level snapshot and the reset line unchanged.
C5_RequestRefusedWhileActive ==
    [][reset_active
       /\ (\/ pc = "reset_button" /\ pins[BUTTON_RESET]
           \/ CommandDue(CMD_RESET))
       => UNCHANGED <<reset_active, reset_start_time, reset_cycle_count,
                      reset_waiting_for_edge, last_clock_state_for_reset,
                      reset_output_state>>]_vars

\* A press of the reset button has passed the debounce test while a session
\* started at an earlier poll is still active.
C5_Witness ==
    /\ reset_active
    /\ pc = "reset_state"
    /\ pins[BUTTON_RESET]
    /\ last_reset_button_time = now
    /\ reset_start_time < now
    /\ ~reset_output_state

\* The frequency the budget of a timed session is computed from.
BudgetFrequency ==
    CASE current_mode = MODE_LOW_FREQ -> current_frequency
      [] current_mode = MODE_HIGH_FREQ -> 1000000
      [] current_mode = MODE_UART_CONTROL -> uart_set_frequency
      [] OTHER -> 0

CeilDiv(a, b) == (a + b - 1) \div b

\* C6: the budget of a timed session is max(10, ceil(6 * 1000 / f)) ms, and
\* 60 ms when f is 0.
C6_BudgetIsCeiling ==
    reset_active /\ current_mode # MODE_SINGLE_STEP =>
        reset_required_ms(S) =
            IF BudgetFrequency = 0 THEN 60
            ELSE IF CeilDiv(6 * 1000, BudgetFrequency) < 10 THEN 10
            ELSE CeilDiv(6 * 1000, BudgetFrequency)

\* C7: a timed session (one not triggered in single step) completes at a tick
\* exactly when the time since its trigger has reached the budget.
C7_TimedSessionCompletesAtBudget ==
    [][ResetTick /\ reset_active /\ ~reset_waiting_for_edge =>
          (~reset_active' <=> now - reset_start_time >= reset_required_ms(S))]_vars

\* C8: a completion sets the reset line high, ends the session and stamps the
\* completion time in the same tick; the stamp changes only there and when it
\* is cleared 250 ms or more after it; every tick of the indicator turns it on
\* when less than 250 ms have passed since the completion and off otherwise;
\* nothing else drives the indicator.
C8_CompletionAndIndicator ==
    [][/\ reset_active /\ ~reset_active' =>
             reset_output_state' /\ reset_high_led_timer' = now
       /\ reset_high_led_timer' # reset_high_led_timer =>
             \/ reset_active /\ ~reset_active'
             \/ /\ pc = "reset_leds"
                /\ reset_high_led_timer' = 0
                /\ now - reset_high_led_timer >= 250
       /\ pc = "reset_leds" =>
             led_reset_high' = (reset_high_led_timer > 0
                                /\ now - reset_high_led_timer < 250)
       /\ led_reset_high' # led_reset_high => pc = "reset_leds"]_vars

\* The indicator is on at a tick later than the one of the completion.
C8_Witness ==
    /\ led_reset_high
    /\ pc = "power_button"
    /\ ~reset_active
    /\ reset_output_state
    /\ reset_high_led_timer > 0
    /\ now > reset_high_led_timer

C10_LeavingRemoteClearsSession ==
    [][current_mode = MODE_UART_CONTROL /\ current_mode' # MODE_UART_CONTROL =>
          /\ uart_cmd_buffer' = <<>>
          /\ ~uart_clock_running'
          /\ uart_set_frequency' = 0]_vars

\* C11: every call of set_mode(MODE_LOW_FREQ) (an accepted press of the
\* low-frequency button, or remote control returning to low frequency), also
\* when low frequency is already active and the potentiometer is unchanged,
\* leaves within the call a frequency in [1, 100000] and the repeating timer
\* running.
C11_LowFrequencyEntryStartsTimer ==
    [][(\/ last_button_time'[1] # last_button_time[1]
        \/ current_mode = MODE_UART_CONTROL)
       /\ current_mode' = MODE_LOW_FREQ
       => /\ timer_active'
          /\ current_frequency' >= 1
          /\ current_frequency' <= 100000]_vars

\* C12: in remote control, a press of any of the five buttons makes
\* handle_uart_control leave remote control for the remembered previous mode
\* in that poll.
C12_AnyButtonLeavesRemote ==
    [][/\ pc = "mode"
       /\ pc' # "mode"
       /\ current_mode = MODE_UART_CONTROL
       /\ \E b \in Buttons : pins[b]
       => /\ current_mode' # MODE_UART_CONTROL
          /\ current_mode' = previous_mode]_vars

\* A step of the receive loop: one byte is taken from the line.
ByteReceived == pc = "uart_receive" /\ rx # <<>> /\ rx' = Tail(rx)

\* The step in which handle_uart_control decides whether to leave.
RemotePoll == pc = "mode" /\ pc' # "mode" /\ current_mode = MODE_UART_CONTROL

NoButtonPressed == \A b \in Buttons : ~pins[b]

\* C13: the inactivity deadline of remote control is now + 30000 ms at entry
\* and after every received byte, and nothing else moves it while remote
\* control is active; at a poll with no button pressed remote control is left,
\* for the previous mode, exactly when the deadline has passed, hence never
\* sooner than 30000 ms after entry or the last byte.
C13_InactivityDeadline ==
    [][/\ ByteReceived => uart_menu_timeout' = now + UART_MENU_TIMEOUT_MS
       /\ current_mode # MODE_UART_CONTROL /\ current_mode' = MODE_UART_CONTROL
          => uart_menu_timeout' = now + UART_MENU_TIMEOUT_MS
       /\ current_mode = MODE_UART_CONTROL /\ uart_menu_timeout' # uart_menu_timeout
          => ByteReceived
       /\ RemotePoll /\ NoButtonPressed
          => IF now > uart_menu_timeout
             THEN current_mode' = previous_mode /\ current_mode' # MODE_UART_CONTROL
             ELSE current_mode' = MODE_UART_CONTROL]_vars

\* A byte has been received in remote control and has moved the deadline.
C13_Witness ==
    /\ current_mode = MODE_UART_CONTROL
    /\ Len(uart_cmd_buffer) > 0
    /\ uart_menu_timeout = now + UART_MENU_TIMEOUT_MS

\* C14: entering remote control from a mode M remembers M, the memory does not
\* change while remote control is active and is never remote control itself,
\* and an exit of handle_uart_control (button or deadline) returns to exactly M.
C14_RemoteRoundTrip ==
    [][/\ current_mode # MODE_UART_CONTROL /\ current_mode' = MODE_UART_CONTROL
          => previous_mode' = current_mode
       /\ current_mode = MODE_UART_CONTROL /\ current_mode' = MODE_UART_CONTROL
          => previous_mode' = previous_mode
       /\ current_mode' = MODE_UART_CONTROL => previous_mode' # MODE_UART_CONTROL
       /\ RemotePoll /\ current_mode' # MODE_UART_CONTROL
          => current_mode' = previous_mode /\ previous_mode' = previous_mode]_vars

\* Remote control was entered from the low-frequency mode and has been left
\* for it.
C14_Witness ==
    /\ previous_mode = MODE_LOW_FREQ
    /\ current_mode = MODE_LOW_FREQ
    /\ pc = "reset_button"
    /\ uart_menu_timeout > 0

\* The decimal numeral of n, most significant digit first.
RECURSIVE Decimal(_)
Decimal(n) ==
    LET d == CHOOSE c \in Digits : DigitVal(c) = n % 10 IN
    IF n < 10 THEN <<d>> ELSE Append(Decimal(n \div 10), d)

\* Frequencies asked for: the ends of the range and the example value.
AskedFrequencies == {MIN_UART_FREQ, 50, MAX_UART_FREQ}

\* C15: a dispatched "freq N" with N a decimal number in [1, 1000000] sets the
\* remembered frequency to N, starts the remote PWM and sets the running flag.
C15_FreqStartsRemotePwm ==
    [][\A N \in AskedFrequencies :
          CommandDue(CMD_FREQ \o Decimal(N))
          => /\ uart_set_frequency' = N
             /\ uart_pwm_active'
             /\ pwm_enabled'
             /\ uart_clock_running']_vars

\* "freq 1000000" has been dispatched.
C15_Witness ==
    /\ uart_set_frequency = MAX_UART_FREQ
    /\ uart_pwm_active
    /\ uart_clock_running
    /\ uart_cmd_buffer = <<>>

\* Lines the claim calls rejected: a freq token that is not purely decimal
\* digits, a value outside [1, 1000000], an unknown or wrongly-cased word.
RejectedCommands ==
    { CMD_FREQ \o <<"+", "5", "0">>,
      CMD_FREQ \o <<"5", "x">>,
      CMD_FREQ \o <<"0">>,
      CMD_FREQ \o Decimal(2 * MAX_UART_FREQ),
      <<"b", "o", "g", "u", "s">>,
      <<"S", "T", "O", "P">> }

\* C16: the dispatch of a rejected line changes neither the mode, the
\* remembered frequency, the running flag, the active generation, the clock
\* level, the power state nor the reset session, and leaves the buffer empty
\* for the next line.
C16_RejectedLineChangesNothing ==
    [][(\E cmd \in RejectedCommands : CommandDue(cmd))
       => /\ UNCHANGED <<current_mode, uart_set_frequency, uart_clock_running,
                         uart_pwm_active, pwm_enabled, timer_active,
                         single_step_active, clock_state, power_state,
                         reset_active, reset_output_state, reset_cycle_count,
                         reset_start_time, reset_waiting_for_edge>>
          /\ uart_cmd_buffer' = <<>>]_vars

\* C17: after a dispatched "stop" the remote PWM is off, the running flag is
\* false and the clock is low, whatever ran before; the remembered frequency
\* is kept.
C17_StopHaltsAndDrivesLow ==
    [][CommandDue(CMD_STOP)
       => /\ ~uart_pwm_active'
          /\ ~pwm_enabled'
          /\ ~uart_clock_running'
          /\ ~clock_state'
          /\ uart_set_frequency' = uart_set_frequency]_vars

\* "stop" has been dispatched while a remote frequency was running.
C17_Witness ==
    /\ current_mode = MODE_UART_CONTROL
    /\ uart_set_frequency > 0
    /\ ~uart_pwm_active
    /\ ~uart_clock_running
    /\ ~clock_state
    /\ uart_cmd_buffer = <<>>

\* C18: a dispatched "toggle" halts the remote generation (PWM off, running
\* flag false) and inverts the clock level exactly once.
C18_ToggleHaltsAndFlipsOnce ==
    [][CommandDue(CMD_TOGGLE)
       => /\ ~uart_pwm_active'
          /\ ~pwm_enabled'
          /\ ~uart_clock_running'
          /\ clock_state' = ~clock_state]_vars

\* "toggle" has been dispatched in remote control and has driven the clock
\* high.
C18_Witness ==
    /\ current_mode = MODE_UART_CONTROL
    /\ clock_state
    /\ ~uart_pwm_active
    /\ ~uart_clock_running
    /\ uart_cmd_buffer = <<>>

\* C19: the command buffer never holds more than UART_CMD_BUFFER_SIZE - 1
\* characters, and a printable byte received when it is full is dropped
\* without changing the buffer.
C19_BufferNeverOverflows ==
    [][/\ Len(uart_cmd_buffer) <= UART_CMD_BUFFER_SIZE - 1
       /\ Len(uart_cmd_buffer') <= UART_CMD_BUFFER_SIZE - 1
       /\ ByteReceived
          /\ Len(uart_cmd_buffer) = UART_CMD_BUFFER_SIZE - 1
          /\ Head(rx) \in Printable
          => uart_cmd_buffer' = uart_cmd_buffer]_vars

\* The buffer is full and the bytes of the line beyond its capacity have been
\* received.
C19_Witness ==
    /\ Len(uart_cmd_buffer) = UART_CMD_BUFFER_SIZE - 1
    /\ rx = <<>>

\* The end of a line reaches the receive loop.
LineEnd == ByteReceived /\ Head(rx) \in {CR, LF}

\* C20: the output caused by every line end (a valid command, a rejected freq
\* line including one without a value, an unknown command, an empty line)
\* ends with the prompt "Cmd> ", written before the next byte is processed.
C20_EveryResponseEndsWithPrompt ==
    [][LineEnd => cmd_prompted']_vars

\* C21: button_pressed(pin, i) returns true exactly when the input is asserted
\* and at least 50 ms have elapsed since the last accepted event for index i,
\* a sample taken exactly 50 ms after it included.
C21_AcceptedFromFiftyMs ==
    \A i \in 0..2 :
        button_pressed(S, pins, ButtonPin(i), i, now)
        <=> /\ pins[ButtonPin(i)]
            /\ now - last_button_time[i] >= DEBOUNCE_DELAY_MS

\* C22: during one continuous assertion of an input the debounce check
\* returns true at most once: an input whose present assertion has been
\* reported is not reported again while the pins stay as they are.
C22_OneReportPerPress ==
    [][pins' = pins
       => /\ \A i \in 0..2 :
                ButtonPin(i) \in reported => last_button_time'[i] = last_button_time[i]
          /\ BUTTON_RESET \in reported
                => last_reset_button_time' = last_reset_button_time
          /\ BUTTON_POWER \in reported
                => last_power_button_time' = last_power_button_time]_vars

\* C23: for every input index, a true return of the debounce check stamps the
\* present time, and it comes more than 50 ms after the previous true return
\* for that index.
C23_TrueReturnsMoreThanFiftyMsApart ==
    [][\A i \in 0..2 :
          last_button_time'[i] # last_button_time[i]
          => /\ last_button_time'[i] = now
             /\ last_button_time'[i] - last_button_time[i] > DEBOUNCE_DELAY_MS]_vars

\* The Manual button has been accepted twice in single step: the clock was
\* toggled high and low again.
C23_Witness ==
    /\ current_mode = MODE_SINGLE_STEP
    /\ single_step_active
    /\ ~clock_state
    /\ last_button_time[0] > 0

\* A read of the potentiometer by update_low_frequency.
PotRead == pc = "mode" /\ pc' = "reset_button" /\ current_mode = MODE_LOW_FREQ

\* C24: for every adc_value in [0, 819] the frequency computed from it is in
\* [1, 100], not below the one computed from adc_value - 1, 1 at 0 and 100
\* at 819.
C24_FirstRangeMapping ==
    [][PotRead /\ adc_value <= 819
       => /\ current_frequency' = calculate_frequency_from_pot(adc_value)
          /\ current_frequency' >= MIN_LOW_FREQ
          /\ current_frequency' <= MAX_LOW_FREQ_RANGE1
          /\ current_frequency' >= current_frequency
          /\ adc_value = 0 => current_frequency' = 1
          /\ adc_value = 819 => current_frequency' = 100]_vars

\* The potentiometer has been read at the end of the first range.
C24_Witness ==
    /\ pc = "reset_button"
    /\ adc_value = 819
    /\ current_frequency = MAX_LOW_FREQ_RANGE1
    /\ timer_active

\* C25: for every adc_value in [820, 4095] the frequency computed from it is
\* in [100, 100000], not below the one computed from adc_value - 1, 100000 at
\* 4095, and the product scaled_adc * 99900 fits the int it is computed in.
C25_SecondRangeMapping ==
    [][PotRead /\ adc_value >= 820 /\ adc_value <= ADC_MAX
       => /\ current_frequency' = calculate_frequency_from_pot(adc_value)
          /\ current_frequency' >= MAX_LOW_FREQ_RANGE1
          /\ current_frequency' <= MAX_LOW_FREQ_RANGE2
          /\ current_frequency' >= current_frequency
          /\ adc_value = ADC_MAX => current_frequency' = MAX_LOW_FREQ_RANGE2
          /\ adc_value - 819
                <= INT_MAX \div (MAX_LOW_FREQ_RANGE2 - MAX_LOW_FREQ_RANGE1)]_vars

\* The potentiometer has been read at the top of its range.
C25_Witness ==
    /\ pc = "reset_button"
    /\ adc_value = ADC_MAX
    /\ current_frequency = MAX_LOW_FREQ_RANGE2
    /\ timer_active

\* The PWM slice produces exactly f Hz: f = sys_clock / (divider * (wrap + 1)),
\* with the divider as the fraction num / den.
PwmFrequencyIs(f) ==
    SYS_CLOCK_HZ * pwm_clkdiv.den = f * pwm_clkdiv.num * (pwm_wrap + 1)

\* C26: in the high-frequency mode the slice runs with the constant pair
\* divider = 125, wrap = 1 and level = 1, which gives exactly 1 MHz from the
\* 125 MHz reference, and current_frequency is 1000000.
C26_HighFrequencyIsOneMHz ==
    current_mode = MODE_HIGH_FREQ
    => /\ pwm_enabled
       /\ pwm_clkdiv = [num |-> PWM_CLOCK_DIVIDER, den |-> 1]
       /\ pwm_wrap = PWM_WRAP_VALUE
       /\ pwm_level = PWM_DUTY_CYCLE
       /\ current_frequency = HIGH_FREQ_OUTPUT
       /\ PwmFrequencyIs(HIGH_FREQ_OUTPUT)

\* C27: while the remote PWM runs, the parameters left by the solver of
\* start_uart_pwm are within the hardware's range: 1 <= divider <= 255,
\* 2 <= wrap <= 65535 and level = wrap / 2.
C27_RemoteSolverInRange ==
    uart_pwm_active
    => /\ pwm_clkdiv.num >= pwm_clkdiv.den
       /\ (pwm_clkdiv.num + pwm_clkdiv.den - 1) \div pwm_clkdiv.den <= PWM_MAX_DIVIDER
       /\ pwm_wrap >= 2
       /\ pwm_wrap <= PWM_MAX_WRAP
       /\ pwm_level = pwm_wrap \div 2

\* The mode selected by a mode-select button.
ModeOfButton(b) ==
    CASE b = BUTTON_SINGLE_STEP -> MODE_SINGLE_STEP
      [] b = BUTTON_LOW_FREQ -> MODE_LOW_FREQ
      [] b = BUTTON_HIGH_FREQ -> MODE_HIGH_FREQ

\* b is the only mode-select button touched in this run.
OnlyModeButton(b) == LivePins(sched) \cap ModeButtons = {b}

\* The loop has seen a mode-select button pressed and then released before
\* 3 s had passed, and finishes the handling of that press.
PressHandled == pc = "release_buttons" /\ pc' = "mode"

\* C28: when the handling of a press and release of a mode-select button
\* (held for less than 3 s) ends, the mode of that button is active.
C28_ShortPressSelectsMode ==
    [][\A b \in ModeButtons :
          PressHandled /\ OnlyModeButton(b) => current_mode' = ModeOfButton(b)]_vars

\* C29: a command line is dispatched, and the remote PWM is started, only
\* while remote control is the active mode, also for the bytes that are
\* pending when a command of the same poll has changed the mode.
C29_InterpreterOnlyInRemoteControl ==
    [][/\ LineEnd /\ uart_cmd_buffer # <<>> => current_mode = MODE_UART_CONTROL
       /\ uart_pwm_active' /\ ~uart_pwm_active
          => current_mode' = MODE_UART_CONTROL]_vars

\* C30: a status report is written in every step of the program that changes
\* the mode or the generated frequency (the potentiometer in the
\* low-frequency mode, an accepted freq command in remote control), and on
\* the command "status".
C30_StatusAfterEveryChange ==
    [][\/ current_mode' # current_mode
       \/ current_frequency' # current_frequency
       \/ \E N \in AskedFrequencies : CommandDue(CMD_FREQ \o Decimal(N))
       \/ CommandDue(CMD_STATUS)
       => status_printed']_vars

\* The hold check of one iteration (lines 131-156 up to the release delay).
HoldCheck == pc = "hold" /\ pc' # "hold" /\ current_mode # MODE_UART_CONTROL

\* C31: outside remote control, the hold check enters remote control exactly
\* when a mode-select button is pressed and has been seen pressed by every
\* poll for 3000 ms, and then records the mode active at that moment as the
\* previous mode; the first poll that sees a press only starts the timing, a
\* poll that sees the release ends it (button_held is cleared after the
\* release delay), and nothing else enters remote control.
C31_HoldGestureEntersRemote ==
    [][/\ current_mode # MODE_UART_CONTROL /\ current_mode' = MODE_UART_CONTROL
          => HoldCheck
       /\ HoldCheck
          => IF any_button_pressed(pins) /\ button_held
                /\ now - button_hold_start >= HOLD_FOR_UART_MS
             THEN /\ current_mode' = MODE_UART_CONTROL
                  /\ previous_mode' = current_mode
             ELSE /\ current_mode' = current_mode
                  /\ previous_mode' = previous_mode
       /\ HoldCheck /\ any_button_pressed(pins) /\ ~button_held
          => button_held' /\ button_hold_start' = now
       /\ HoldCheck /\ ~any_button_pressed(pins) /\ button_held
          => pc' = "release_sleep"
       /\ pc = "release_buttons" /\ pc' # "release_buttons" => ~button_held']_vars

\* Remote control has just been entered by a hold that began in the
\* low-frequency mode.
C31_Witness ==
    /\ current_mode = MODE_UART_CONTROL
    /\ previous_mode = MODE_LOW_FREQ
    /\ pc = "mode"
    /\ uart_menu_timeout = now + UART_MENU_TIMEOUT_MS
    /\ now - button_hold_start >= HOLD_FOR_UART_MS

\* The mode-specific step of the iteration whose hold check has just entered
\* remote control: the deadline still is the one set_mode computed at this
\* instant.
JustEntered ==
    /\ pc = "mode"
    /\ current_mode = MODE_UART_CONTROL
    /\ uart_menu_timeout = now + UART_MENU_TIMEOUT_MS

EntryIteration == JustEntered /\ pc' # "mode"

\* C32: the button still held from the entry gesture does not cause an exit:
\* the mode still is remote control at the end of the iteration that entered
\* it.
C32_HeldButtonDoesNotExit ==
    [][EntryIteration /\ any_button_pressed(pins)
       => current_mode' = MODE_UART_CONTROL]_vars

\* A session that was triggered in a timed mode while the mode now is single
\* step: update_reset_state takes the edge branch, which counts nothing
\* unless reset_waiting_for_edge was captured true.
ResetStuck ==
    /\ reset_active
    /\ current_mode = MODE_SINGLE_STEP
    /\ ~reset_waiting_for_edge

\* No step completes such a session as long as the mode stays single step,
\* whatever the clock does and however long the polling goes on.
ResetStuckStays ==
    [][ResetStuck /\ current_mode' = MODE_SINGLE_STEP
       => reset_active' /\ ~reset_output_state' /\ ~reset_waiting_for_edge']_vars

\* C33: every reset session can complete under continued polling, also after
\* a mode change during the session: the device is never in a state where the
\* reset line is low and neither elapsed time nor clock edges can end the
\* session, that is, a session polled in single step counts rising edges.
C33_SessionAlwaysCompletes == ~ResetStuck

\* The loop is between two iterations: the last handler has returned and the
\* next hold check has not begun.
PollBoundary == pc \in {"sleep", "hold"}

\* C34: at every poll boundary the active generator matches the mode: the
\* software toggle timer runs only in the low-frequency mode, and the remote
\* PWM and the remote running flag are set only in remote control.
C34_GeneratorMatchesMode ==
    PollBoundary
    => /\ timer_active => current_mode = MODE_LOW_FREQ
       /\ uart_pwm_active \/ uart_clock_running
          => current_mode = MODE_UART_CONTROL

\* What the line holds after one more byte: printable bytes are retained up
\* to UART_CMD_BUFFER_SIZE - 1 of them, a backspace or DEL removes the last
\* retained one, a terminator leaves the line empty.
LineAfter(line, c) ==
    IF c \in {CR, LF} THEN <<>>
    ELSE IF c \in {BS, DEL}
    THEN IF line = <<>> THEN <<>> ELSE SubSeq(line, 1, Len(line) - 1)
    ELSE IF c \in Printable /\ Len(line) < UART_CMD_BUFFER_SIZE - 1
    THEN Append(line, c)
    ELSE line

\* C35: the line dispatched on CR or LF is made of the bytes received since
\* the previous terminator or the most recent entry into remote control: the
\* line is empty at every entry into remote control (bytes of an earlier
\* session are never part of it), every received byte changes it as LineAfter
\* says, and a terminator on an empty line dispatches nothing (it only shows
\* the prompt).
C35_LineIsTypedSinceEntry ==
    [][/\ current_mode # MODE_UART_CONTROL /\ current_mode' = MODE_UART_CONTROL
          => uart_cmd_buffer' = <<>>
       /\ ByteReceived
          => uart_cmd_buffer' = LineAfter(uart_cmd_buffer, Head(rx))
       /\ LineEnd /\ uart_cmd_buffer = <<>>
          => /\ cmd_prompted'
             /\ uart_clock_running' = uart_clock_running
             /\ uart_set_frequency' = uart_set_frequency
             /\ clock_state' = clock_state
             /\ current_mode' = current_mode]_vars

\* C36: at every poll boundary the reported frequency fits the mode: 0 in
\* single step, 1 MHz in the high-frequency mode, between 1 Hz and 100 kHz in
\* the low-frequency mode, and 0 in remote control, where the remote
\* frequency is held apart in uart_set_frequency (0 on entry).
C36_FrequencyFitsMode ==
    /\ PollBoundary
       => /\ current_mode = MODE_SINGLE_STEP => current_frequency = 0
          /\ current_mode = MODE_HIGH_FREQ => current_frequency = HIGH_FREQ_OUTPUT
          /\ current_mode = MODE_LOW_FREQ
             => /\ current_frequency >= MIN_LOW_FREQ
                /\ current_frequency <= MAX_LOW_FREQ_RANGE2
          /\ current_mode = MODE_UART_CONTROL => current_frequency = 0
    /\ JustEntered => current_frequency = 0 /\ uart_set_frequency = 0

\* An iteration in remote control ends with a remote frequency of 50 Hz
\* remembered next to a reported frequency of 0.
C36_Witness ==
    /\ PollBoundary
    /\ current_mode = MODE_UART_CONTROL
    /\ uart_set_frequency = 50
    /\ current_frequency = 0
    /\ previous_mode = MODE_LOW_FREQ

\* C37: in every reachable state the reset line is low exactly while a
\* session is active (reset_output_state = ~reset_active); at start-up the
\* line is high and no session is active.
C37_ResetLineFollowsSession ==
    /\ reset_output_state = ~reset_active
    /\ now = 0 => reset_output_state /\ ~reset_active

\* A session has been started and has completed: the line is high again.
C37_Witness ==
    /\ ~reset_active
    /\ reset_output_state
    /\ reset_start_time > 0
    /\ reset_high_led_timer >= reset_start_time
    /\ pc = "reset_leds"

\* C38: after each dispatched command and each mode change (in fact in every
\* state between two steps of the program) the remote running flag is set
\* exactly when the remote PWM is active, and then the remembered remote
\* frequency lies between MIN_UART_FREQ and MAX_UART_FREQ.
C38_RunningFlagMatchesPwm ==
    /\ uart_clock_running <=> uart_pwm_active
    /\ uart_clock_running
       => uart_set_frequency >= MIN_UART_FREQ /\ uart_set_frequency <= MAX_UART_FREQ

\* The command freq 1000000 has been dispatched: the remote PWM runs at the
\* upper limit of the range.
C38_Witness ==
    /\ uart_clock_running
    /\ uart_pwm_active
    /\ uart_set_frequency = MAX_UART_FREQ
    /\ current_mode = MODE_UART_CONTROL
    /\ uart_cmd_buffer = <<>>

\* The state of the reset session and of the reset line.
ResetFields(s) ==
    <<s.reset_active, s.reset_start_time, s.reset_cycle_count,
      s.reset_waiting_for_edge, s.reset_output_state>>

\* C39: set_mode, called in any reachable state for any mode, alters neither
\* the reset session (active flag, start time, cycle count, captured
\* strategy), nor the reset line, nor the power state; no step that changes
\* the mode changes the reset session; and the power state changes only in
\* the power button handler and in the dispatch of "power on" or "power off".
C39_SetModeLeavesResetAndPower ==
    [][/\ \A mode \in {MODE_SINGLE_STEP, MODE_LOW_FREQ, MODE_HIGH_FREQ,
                       MODE_UART_CONTROL} :
             LET r == set_mode(S, mode, now, adc_value) IN
             /\ ResetFields(r) = ResetFields(S)
             /\ r.power_state = power_state
       /\ current_mode' # current_mode
          => UNCHANGED <<reset_active, reset_start_time, reset_cycle_count,
                         reset_waiting_for_edge, reset_output_state>>
       /\ power_state' # power_state
          => \/ pc = "power_button"
             \/ CommandDue(CMD_POWER_ON)
             \/ CommandDue(CMD_POWER_OFF)]_vars

\* The mode has been changed (by the power toggle, through set_mode) in the
\* iteration that started a reset session, and the session is as it was
\* started.
C39_Witness ==
    /\ pc = "sleep"
    /\ reset_active
    /\ ~reset_output_state
    /\ reset_start_time = now
    /\ ~reset_waiting_for_edge
    /\ current_mode = MODE_SINGLE_STEP
    /\ power_state

\* The time stamps of all debounced inputs.
Stamps(s) ==
    <<s.last_button_time, s.last_reset_button_time, s.last_power_button_time>>

\* C40: a debounce check of input i changes at most the time stamp of i, and
\* only on a true return; a false return leaves every time stamp (and the
\* whole state) unchanged.  This holds for button_pressed called in any
\* reachable state, and for the handlers of the loop: the mode buttons stamp
\* exactly the inputs whose check returned true, the reset handler writes
\* only the reset stamp and the power handler only the power stamp, each only
\* when its check passes.
C40_DebounceStampsAreIndependent ==
    [][/\ \A i \in 0..2 :
             LET r == button_pressed_state(S, pins, ButtonPin(i), i, now) IN
             /\ \A j \in DOMAIN last_button_time :
                   j # i => r.last_button_time[j] = last_button_time[j]
             /\ r.last_reset_button_time = last_reset_button_time
             /\ r.last_power_button_time = last_power_button_time
             /\ ~button_pressed(S, pins, ButtonPin(i), i, now) => r = S
       /\ (pc = "mode" \/ pc = "release_buttons") /\ pc' # pc
          => /\ \A i \in DOMAIN last_button_time :
                   last_button_time'[i] # last_button_time[i]
                   => /\ i \in 0..2
                      /\ button_pressed(S, pins, ButtonPin(i), i, now)
                      /\ last_button_time'[i] = now
             /\ UNCHANGED <<last_reset_button_time, last_power_button_time>>
       /\ pc = "reset_button"
          => /\ UNCHANGED <<last_button_time, last_power_button_time>>
             /\ ~(pins[BUTTON_RESET]
                     /\ now - last_reset_button_time > DEBOUNCE_DELAY_MS)
                => UNCHANGED last_reset_button_time
       /\ pc = "power_button"
          => /\ UNCHANGED <<last_button_time, last_reset_button_time>>
             /\ ~(pins[BUTTON_POWER]
                     /\ now - last_power_button_time > DEBOUNCE_DELAY_MS)
                => UNCHANGED last_power_button_time]_vars

\* handle_buttons has just stamped the low-frequency input and left the
\* earlier stamp of the single-step input, whose check returned false.
C40_Witness ==
    /\ pc = "reset_button"
    /\ last_button_time[1] = now
    /\ last_button_time[0] > 0
    /\ last_button_time[0] < now
    /\ ~pins[BUTTON_SINGLE_STEP]
    /\ last_button_time[3] = 0

====
